---------------------------- MODULE Spec2Model ----------------------------
(***************************************************************************)
(* toison: the size distribution of a JSON document, rendered as an        *)
(* indented list of lines (src/src/main.rs).                               *)
(*                                                                         *)
(* main parses the document, builds the size tree with Node::from_json,    *)
(* resolves the display settings and calls root.render, which prints one   *)
(* line per node it does not omit, recursing into the retained children.   *)
(* One action per statement group of main and one per execution of the     *)
(* body of Node::render; the pending recursive calls are the call stack.   *)
(*                                                                         *)
(* Text is a sequence of characters, each character a string naming it;    *)
(* String::len counts UTF-8 bytes, chars() counts characters.              *)
(* Option<T> is a sequence: None is <<>>, Some(x) is <<x>>.                *)
(***************************************************************************)
EXTENDS Integers, Sequences, FiniteSets, TLC

VARIABLES
    json,      \* the parsed document (serde_json::Value) main reads
    args,      \* Args: threshold, max_depth, unit
    term,      \* what term_size::dimensions() answers: None or Some(columns)
    pc,        \* main's position: "parse", "configure", "render", "done"
    root,      \* the tree from_json built
    settings,  \* DisplaySettings
    stack,     \* pending calls of Node::render, innermost first
    out,       \* the lines printed so far, in order
    omitted    \* the render calls that returned early, and by which test

vars == <<json, args, term, pc, root, settings, stack, out, omitted>>

-----------------------------------------------------------------------------
(* Bounds of the model *)

\* the most elements of an array / entries of an object
MaxElems == 2
\* the deepest nesting of containers in a document
MaxNest == 3
\* --max-depth requests range over -MaxReq .. MaxReq
MaxReq == 1
\* the columns of the terminal, when term_size knows them
TermCols == 25
\* usize is UsizeBits wide; every quantity of the model is far below
\* 2^UsizeBits, so the only wrap is the cast of a negative isize
UsizeBits == 16

-----------------------------------------------------------------------------
(* Option, text and small helpers *)

None == <<>>
Some(x) == <<x>>
IsSome(o) == Len(o) = 1
Unwrap(o) == o[1]

RECURSIVE SumSeq(_)
SumSeq(s) == IF s = <<>> THEN 0 ELSE Head(s) + SumSeq(Tail(s))

RECURSIVE MaxSeq(_)
\* Iterator::max over usize, None (here -1) on an empty iterator
MaxSeq(s) ==
    IF s = <<>> THEN -1
    ELSE LET m == MaxSeq(Tail(s)) IN IF Head(s) >= m THEN Head(s) ELSE m

RECURSIVE Pow2(_)
Pow2(n) == IF n = 0 THEN 1 ELSE 2 * Pow2(n - 1)

\* the characters that take two and three bytes in UTF-8
TwoByteChars == {"U+00E9"}
ThreeByteChars == {"U+2026"}
Utf8Len(c) ==
    IF c \in ThreeByteChars THEN 3 ELSE IF c \in TwoByteChars THEN 2 ELSE 1

\* str::len / String::len: the length in bytes
StrLen(s) == SumSeq([i \in 1..Len(s) |-> Utf8Len(s[i])])
\* chars().count()
CharCount(s) == Len(s)
\* chars().take(n).collect()
TakeChars(s, n) == IF n >= Len(s) THEN s ELSE SubSeq(s, 1, n)

DigitChar(d) == <<"0", "1", "2", "3", "4", "5", "6", "7", "8", "9">>[d + 1]

RECURSIVE NatText(_)
NatText(n) ==
    IF n < 10 THEN <<DigitChar(n)>>
    ELSE NatText(n \div 10) \o <<DigitChar(n % 10)>>

\* to_string of an integer
IntText(x) == IF x < 0 THEN <<"-">> \o NatText(-x) ELSE NatText(x)

RECURSIVE SeparateWithCommas(_)
\* thousands::Separable: a comma before every group of three digits
SeparateWithCommas(digits) ==
    IF Len(digits) <= 3 THEN digits
    ELSE SeparateWithCommas(SubSeq(digits, 1, Len(digits) - 3))
            \o <<",">> \o SubSeq(digits, Len(digits) - 2, Len(digits))

\* " ".repeat(n)
Spaces(n) == [i \in 1..n |-> " "]

\* `as usize` of an isize: the same bits, read unsigned
AsUsize(i) == i % Pow2(UsizeBits)

-----------------------------------------------------------------------------
(* serde_json::Value *)

JNull == [kind |-> "Null"]
JBool(b) == [kind |-> "Bool", b |-> b]
JNumber(n) == [kind |-> "Number", n |-> n]
JString(s) == [kind |-> "String", s |-> s]
JArray(elems) == [kind |-> "Array", elems |-> elems]
\* the entries in the order Map::iter yields them; the keys are distinct
JObject(entries) == [kind |-> "Object", entries |-> entries]

IsContainer(v) == v.kind \in {"Array", "Object"}
\* the members of a container, in order
Members(v) ==
    IF v.kind = "Array" THEN v.elems
    ELSE IF v.kind = "Object" THEN [i \in 1..Len(v.entries) |-> v.entries[i].v]
    ELSE <<>>

-----------------------------------------------------------------------------
(* Node *)

\* Node::leaf
Leaf(key_size, size, tag) ==
    [tag |-> IF tag = <<>> THEN None ELSE Some(tag),
     len |-> 0,
     size_b |-> size,
     size_c |-> 0,
     key_size |-> key_size,
     children |-> None]

\* ArrayNode with size_b taken from the element count instead of the sum
ArrayNode_BytesFromLen(tag, children) ==
    [tag |-> Some(tag),
     len |-> Len(children),
     size_b |-> Len(children),
     size_c |-> Len(children)
                 + SumSeq([i \in 1..Len(children) |-> children[i].size_c]),
     key_size |-> SumSeq([i \in 1..Len(children) |-> children[i].key_size]),
     children |-> None]

\* ArrayNode that keeps the elements as children, as the Object arm does
ArrayNode_KeepsChildren(tag, children) ==
    [tag |-> Some(tag),
     len |-> Len(children),
     size_b |-> SumSeq([i \in 1..Len(children) |-> children[i].size_b]),
     size_c |-> Len(children)
                 + SumSeq([i \in 1..Len(children) |-> children[i].size_c]),
     key_size |-> SumSeq([i \in 1..Len(children) |-> children[i].key_size]),
     children |-> Some(children)]

\* the Node literal of from_json's Array arm
ArrayNode(tag, children) ==
    [tag |-> Some(tag),
     len |-> Len(children),
     size_b |-> SumSeq([i \in 1..Len(children) |-> children[i].size_b]),
     size_c |-> Len(children)
                 + SumSeq([i \in 1..Len(children) |-> children[i].size_c]),
     key_size |-> SumSeq([i \in 1..Len(children) |-> children[i].key_size]),
     children |-> None]

\* ObjectNode with size_c counting its own len (0) instead of children.len()
ObjectNode_CountsLen(tag, children, keys) ==
    [tag |-> Some(tag),
     len |-> 0,
     size_b |-> SumSeq([i \in 1..Len(children) |-> children[i].size_b]),
     size_c |-> 0 + SumSeq([i \in 1..Len(children) |-> children[i].size_c]),
     key_size |-> SumSeq([i \in 1..Len(keys) |-> StrLen(keys[i])]),
     children |-> Some(children)]

\* ObjectNode with size_b summed over the wrong field of the children
ObjectNode_BytesFromKeys(tag, children, keys) ==
    [tag |-> Some(tag),
     len |-> 0,
     size_b |-> SumSeq([i \in 1..Len(children) |-> children[i].key_size]),
     size_c |-> Len(children)
                 + SumSeq([i \in 1..Len(children) |-> children[i].size_c]),
     key_size |-> SumSeq([i \in 1..Len(keys) |-> StrLen(keys[i])]),
     children |-> Some(children)]

\* the Node literal of from_json's Object arm; keys are the map's keys
ObjectNode(tag, children, keys) ==
    [tag |-> Some(tag),
     len |-> 0,
     size_b |-> SumSeq([i \in 1..Len(children) |-> children[i].size_b]),
     size_c |-> Len(children)
                 + SumSeq([i \in 1..Len(children) |-> children[i].size_c]),
     key_size |-> SumSeq([i \in 1..Len(keys) |-> StrLen(keys[i])]),
     children |-> Some(children)]

\* the size a leaf value is given: from_json's four scalar arms
LeafWeight(n) ==
    CASE n.kind = "Null" -> 0
      [] n.kind = "Bool" -> 4
      [] n.kind = "Number" -> StrLen(IntText(n.n))
      [] n.kind = "String" -> StrLen(n.s)

RECURSIVE from_json(_, _, _)
\* Node::from_json
from_json(n, ks, tag) ==
    CASE n.kind = "Array" ->
            ArrayNode(tag,
                [i \in 1..Len(n.elems) |-> from_json(n.elems[i], 0, <<>>)])
      [] n.kind = "Object" ->
            ObjectNode(tag,
                [i \in 1..Len(n.entries) |->
                    from_json(n.entries[i].v, StrLen(n.entries[i].k),
                              n.entries[i].k)],
                [i \in 1..Len(n.entries) |-> n.entries[i].k])
      [] OTHER -> Leaf(ks, LeafWeight(n), tag)

\* Node::size
Size(node, count) ==
    IF count = "Bytes" THEN node.size_b ELSE node.size_c

RECURSIVE max_depth_rec(_, _)
\* _max_depth, the helper of Node::max_depth
max_depth_rec(n, ax) ==
    IF IsSome(n.children)
    THEN LET children == Unwrap(n.children)
             m == MaxSeq([i \in 1..Len(children) |->
                             max_depth_rec(children[i], ax)])
         IN 1 + (IF m = -1 THEN 0 ELSE m)
    ELSE ax

\* Node::max_depth
max_depth(n) == max_depth_rec(n, 0)

RECURSIVE NodeAt(_, _)
\* the node reached from n through the retained children numbered by path
NodeAt(n, path) ==
    IF path = <<>> THEN n
    ELSE NodeAt(Unwrap(n.children)[Head(path)], Tail(path))

-----------------------------------------------------------------------------
(* Node::render, one call *)

\* a ratio of two usize values taken as f32: den = 0 makes 0/0, not a number
Ratio(num, den) == [num |-> num, den |-> den]
\* a < b on f32; false when either side is not a number.  Within the bounds
\* the quotients are small fractions, which f32 orders as the rationals.
RatioLt(a, b) ==
    /\ a.den # 0
    /\ b.den # 0
    /\ a.num * b.den < b.num * a.den

\* w_tagline
W_tagline(width) == ((width - 19) * 2) \div 3
\* rel_size
RelSize(node, total_size, counter) == Ratio(Size(node, counter), total_size)

\* the depth test with > for >=, a cap that names the last depth rendered
DepthCut_Strict(depth, cap) == IsSome(cap) /\ depth > Unwrap(cap)

\* the depth test that opens render
DepthCut(depth, cap) == IsSome(cap) /\ depth >= Unwrap(cap)

\* the threshold test
BelowThreshold(rel_size, threshold) == RatioLt(rel_size, threshold)

\* cardinality
Cardinality_marker(node) ==
    IF node.len > 0
    THEN <<"[">> \o SeparateWithCommas(NatText(node.len)) \o <<"]", " ">>
    ELSE <<>>

\* id as first composed: indent, cardinality, tag
ComposeId(node, depth) ==
    Spaces(2 * depth) \o Cardinality_marker(node)
        \o (IF IsSome(node.tag) THEN Unwrap(node.tag) ELSE <<>>)

\* id after the truncation step
Truncate(id, w_tagline) ==
    IF StrLen(id) > w_tagline
    THEN TakeChars(id, w_tagline - 2) \o <<"U+2026">>
    ELSE id

\* the printed line, reduced to the node it is for and its label (the
\* percentage, the magnitude, the colour and the bar are not modelled)
Line(node, frame, width) ==
    [path |-> frame.path,
     depth |-> frame.depth,
     id |-> Truncate(ComposeId(node, frame.depth), W_tagline(width))]

\* the calls child.render(total_size, depth + 1, threshold, settings)
ChildCalls(node, frame) ==
    IF IsSome(node.children)
    THEN [i \in 1..Len(Unwrap(node.children)) |->
            [path |-> Append(frame.path, i),
             depth |-> frame.depth + 1,
             total_size |-> frame.total_size,
             threshold |-> frame.threshold]]
    ELSE <<>>

-----------------------------------------------------------------------------
(* The documents and arguments the model runs on *)

\* the i-th key of an object: i characters, so the keys of one object differ
Key(i) == [j \in 1..i |-> IF i % 2 = 0 THEN "U+00E9" ELSE "a"]

LeafValues ==
    {JNull, JBool(TRUE), JNumber(-7), JString(<<"a", "U+00E9">>)}

\* the member at position i > 1 of a container
Sibling(i) ==
    <<JBool(TRUE), JString(<<"b">>), JNumber(12), JNull>>[((i - 2) % 4) + 1]

\* the member lists over first members from firsts
MemberLists(firsts) ==
    {<<>>} \cup
    {[i \in 1..n |-> IF i = 1 THEN v ELSE Sibling(i)] :
        v \in firsts, n \in 1..MaxElems}

RECURSIVE Values(_)
\* the documents nested at most d deep
Values(d) ==
    IF d = 0 THEN LeafValues
    ELSE LET lists == MemberLists(Values(d - 1))
         IN LeafValues
              \cup {JArray(l) : l \in lists}
              \cup {JObject([i \in 1..Len(l) |-> [k |-> Key(i), v |-> l[i]]]) :
                      l \in lists}

Docs == Values(MaxNest)

Units == {"Bytes", "Children"}
\* --threshold, in percent
Thresholds == {0, 50}
DepthRequests == {None} \cup {Some(d) : d \in (-MaxReq)..MaxReq}
Terms == {None, Some(TermCols)}

NoNode == [unbuilt |-> TRUE]
NoSettings == [unset |-> TRUE]

-----------------------------------------------------------------------------
(* main *)

Init ==
    /\ json \in Docs
    /\ args \in [threshold : Thresholds, max_depth : DepthRequests, unit : Units]
    /\ term \in Terms
    /\ pc = "parse"
    /\ root = NoNode
    /\ settings = NoSettings
    /\ stack = <<>>
    /\ out = <<>>
    /\ omitted = {}

\* "Root".to_owned()
RootTag == <<"R", "o", "o", "t">>

\* let root = Node::from_json(&serde_json::from_str(..)?, 0, "Root".to_owned())
Parse ==
    /\ pc = "parse"
    /\ root' = from_json(json, 0, RootTag)
    /\ pc' = "configure"
    /\ UNCHANGED <<json, args, term, settings, stack, out, omitted>>

\* the width main picks
Width(t) == IF IsSome(t) THEN Unwrap(t) ELSE 100

\* the depth main puts in the settings
ResolveDepth(request, r) ==
    IF IsSome(request)
    THEN LET d == Unwrap(request)
         IN IF d >= 0 THEN Some(AsUsize(d))
            ELSE Some(AsUsize(max_depth(r) + d - 1))
    ELSE None

\* args.threshold / 100.
Div100(t) == Ratio(t, 100)

\* let width = ..; let settings = ..; root.render(root.size(args.unit), 0, ..)
Configure ==
    /\ pc = "configure"
    /\ settings' = [counter |-> args.unit,
                    depth |-> ResolveDepth(args.max_depth, root),
                    width |-> Width(term)]
    /\ stack' = <<[path |-> <<>>,
                   depth |-> 0,
                   total_size |-> Size(root, args.unit),
                   threshold |-> Div100(args.threshold)]>>
    /\ pc' = "render"
    /\ UNCHANGED <<json, args, term, root, out, omitted>>

Frame == Head(stack)
Current == NodeAt(root, Frame.path)

\* render returns at the depth test
RenderDepthCut ==
    /\ pc = "render"
    /\ stack # <<>>
    /\ DepthCut(Frame.depth, settings.depth)
    /\ omitted' = omitted \cup {[path |-> Frame.path, by |-> "depth"]}
    /\ stack' = Tail(stack)
    /\ UNCHANGED <<json, args, term, pc, root, settings, out>>

\* render returns at the threshold test
RenderBelowThreshold ==
    /\ pc = "render"
    /\ stack # <<>>
    /\ ~DepthCut(Frame.depth, settings.depth)
    /\ BelowThreshold(RelSize(Current, Frame.total_size, settings.counter),
                      Frame.threshold)
    /\ omitted' = omitted \cup {[path |-> Frame.path, by |-> "threshold"]}
    /\ stack' = Tail(stack)
    /\ UNCHANGED <<json, args, term, pc, root, settings, out>>

\* render prints the node's line and calls render on each retained child
RenderLine ==
    /\ pc = "render"
    /\ stack # <<>>
    /\ ~DepthCut(Frame.depth, settings.depth)
    /\ ~BelowThreshold(RelSize(Current, Frame.total_size, settings.counter),
                       Frame.threshold)
    /\ out' = Append(out, Line(Current, Frame, settings.width))
    /\ stack' = ChildCalls(Current, Frame) \o Tail(stack)
    /\ UNCHANGED <<json, args, term, pc, root, settings, omitted>>

\* root.render has returned: Ok(())
Exit ==
    /\ pc = "render"
    /\ stack = <<>>
    /\ pc' = "done"
    /\ UNCHANGED <<json, args, term, root, settings, stack, out, omitted>>

Next ==
    \/ Parse
    \/ Configure
    \/ RenderDepthCut
    \/ RenderBelowThreshold
    \/ RenderLine
    \/ Exit

Spec == Init /\ [][Next]_vars

\* from_json alone, on every document, under the default arguments
InitBuild ==
    /\ Init
    /\ args = [threshold |-> 0, max_depth |-> None, unit |-> "Bytes"]
    /\ term = None

SpecBuild == InitBuild /\ [][Parse]_vars

-----------------------------------------------------------------------------
(* What the properties below speak of *)

RECURSIVE BuildCalls(_, _, _)
\* every call from_json(n, ks, tag) made while building v, v's own included
BuildCalls(v, ks, tag) ==
    {[n |-> v, ks |-> ks, tag |-> tag]} \cup
    (IF v.kind = "Array"
     THEN UNION {BuildCalls(v.elems[i], 0, <<>>) : i \in 1..Len(v.elems)}
     ELSE IF v.kind = "Object"
     THEN UNION {BuildCalls(v.entries[i].v, StrLen(v.entries[i].k),
                            v.entries[i].k) : i \in 1..Len(v.entries)}
     ELSE {})

\* the nodes from_json builds for the members of the container c.n
MemberNodes(c) ==
    IF c.n.kind = "Array"
    THEN [i \in 1..Len(c.n.elems) |-> from_json(c.n.elems[i], 0, <<>>)]
    ELSE [i \in 1..Len(c.n.entries) |->
            from_json(c.n.entries[i].v, StrLen(c.n.entries[i].k),
                      c.n.entries[i].k)]

RECURSIVE Paths(_)
\* the paths of the nodes of a tree, through retained children
Paths(n) ==
    {<<>>} \cup
    (IF IsSome(n.children)
     THEN UNION {{<<i>> \o p : p \in Paths(Unwrap(n.children)[i])} :
                    i \in 1..Len(Unwrap(n.children))}
     ELSE {})

RECURSIVE ValueAt(_, _)
\* the value reached from v through the members numbered by path
ValueAt(v, path) ==
    IF path = <<>> THEN v ELSE ValueAt(Members(v)[Head(path)], Tail(path))

Prefix(p, k) == SubSeq(p, 1, k)
IsPrefix(p, q) == Len(p) <= Len(q) /\ Prefix(q, Len(p)) = p

\* p comes before q in depth-first pre-order, children by their index
PreOrderBefore(p, q) ==
    \/ (Len(p) < Len(q) /\ IsPrefix(p, q))
    \/ \E k \in 1..Len(p) :
          /\ k <= Len(q)
          /\ Prefix(p, k - 1) = Prefix(q, k - 1)
          /\ p[k] < q[k]

Built == pc # "parse"
\* from_json has just returned: the tree and the document never change after
JustBuilt == pc = "configure"
Rendering == pc \in {"render", "done"}

\* a >= b on f32; false when either side is not a number
RatioGe(a, b) ==
    /\ a.den # 0
    /\ b.den # 0
    /\ a.num * b.den >= b.num * a.den

\* the relative size render computes for the node at path
RelAt(path) == RelSize(NodeAt(root, path), Size(root, args.unit), args.unit)

ChildSizes(node, field) ==
    [i \in 1..Len(Unwrap(node.children)) |-> Unwrap(node.children)[i][field]]

-----------------------------------------------------------------------------
(* C1 *)

\* the weight the claim gives a scalar: null 0, boolean 4, a number the
\* length of its decimal text, a string its length (String::len, in bytes)
ClaimedLeafWeight(v) ==
    IF v.kind = "Null" THEN 0
    ELSE IF v.kind = "Bool" THEN 4
    ELSE IF v.kind = "Number" THEN Len(IntText(v.n))
    ELSE StrLen(v.s)

\* C1: the node built for an array or an object has size_b equal to the sum
\* of the size_b of the nodes built for its direct members, retained (object)
\* or discarded (array), and a leaf's size_b is the weight of its kind.
C1_ByteSizeConserved ==
    Built =>
      /\ \A c \in BuildCalls(json, 0, RootTag) :
            LET node == from_json(c.n, c.ks, c.tag)
                members == MemberNodes(c)
            IN IF IsContainer(c.n)
               THEN node.size_b =
                      SumSeq([i \in 1..Len(members) |-> members[i].size_b])
               ELSE node.size_b = ClaimedLeafWeight(c.n)
      /\ \A p \in Paths(root) :
            LET node == NodeAt(root, p)
            IN IF IsSome(node.children)
               THEN node.size_b = SumSeq(ChildSizes(node, "size_b"))
               ELSE ~IsContainer(ValueAt(json, p)) =>
                        node.size_b = ClaimedLeafWeight(ValueAt(json, p))

\* a tree is built from an object that holds an array of two elements, the
\* first a container with members of its own, around a non-ASCII string
C1_Witness ==
    /\ Built
    /\ json.kind = "Object"
    /\ \E c \in BuildCalls(json, 0, RootTag) :
          /\ c.n.kind = "Array"
          /\ Len(c.n.elems) = 2
          /\ IsContainer(c.n.elems[1])
          /\ Members(c.n.elems[1]) # <<>>
          /\ from_json(c.n, c.ks, c.tag).size_b > 4
    /\ \E c \in BuildCalls(json, 0, RootTag) :
          c.n.kind = "String" /\ StrLen(c.n.s) > CharCount(c.n.s)

-----------------------------------------------------------------------------
(* C2 *)

\* C2, as claimed: every node with retained children has size_c equal to its
\* own len plus the sum of its children's size_c.
C2_LenPlusChildren ==
    Built =>
      \A p \in Paths(root) :
         LET node == NodeAt(root, p)
         IN IsSome(node.children) =>
              node.size_c = node.len + SumSeq(ChildSizes(node, "size_c"))

\* C2, amended: a node with retained children has size_c equal to the number
\* of its children plus the sum of their size_c, its len being 0; an array
\* node has len equal to the number of its elements and size_c equal to len
\* plus the sum of the size_c of the nodes built for the elements.
C2_ChildCountPlusChildren ==
    Built =>
      /\ \A p \in Paths(root) :
            LET node == NodeAt(root, p)
            IN IsSome(node.children) =>
                 /\ node.len = 0
                 /\ node.size_c = Len(Unwrap(node.children))
                                    + SumSeq(ChildSizes(node, "size_c"))
      /\ \A c \in BuildCalls(json, 0, RootTag) :
            LET node == from_json(c.n, c.ks, c.tag)
                members == MemberNodes(c)
            IN /\ c.n.kind = "Array" =>
                    /\ node.len = Len(c.n.elems)
                    /\ node.size_c = node.len +
                         SumSeq([i \in 1..Len(members) |-> members[i].size_c])
               /\ c.n.kind = "Object" =>
                    node.size_c = Len(c.n.entries) +
                         SumSeq([i \in 1..Len(members) |-> members[i].size_c])

\* an object with two entries, one of them a non-empty container, was built,
\* and so was a non-empty array
C2_Witness ==
    /\ Built
    /\ \E p \in Paths(root) :
          LET node == NodeAt(root, p)
          IN /\ IsSome(node.children)
             /\ Len(Unwrap(node.children)) = 2
             /\ \E i \in 1..2 : Unwrap(node.children)[i].size_c > 0
             /\ node.size_c > 2
    /\ \E c \in BuildCalls(json, 0, RootTag) :
          c.n.kind = "Array" /\ c.n.elems # <<>>

-----------------------------------------------------------------------------
(* C3 *)

\* C3: each retained child is no larger than its parent under both units, so
\* its relative size is never greater than its parent's, and no node render
\* omitted by the threshold test has a descendant whose relative size
\* reaches the threshold.
C3_ChildNoLargerThanParent ==
    /\ JustBuilt =>
         \A p \in Paths(root) :
            LET node == NodeAt(root, p)
            IN IsSome(node.children) =>
                 \A i \in 1..Len(Unwrap(node.children)) :
                    LET child == Unwrap(node.children)[i]
                    IN /\ \A u \in Units : Size(child, u) <= Size(node, u)
                       /\ ~RatioLt(RelAt(p), RelAt(Append(p, i)))
    /\ Rendering =>
         \A o \in omitted :
            o.by = "threshold" =>
               \A q \in Paths(NodeAt(root, o.path)) :
                  q # <<>> =>
                     ~RatioGe(RelAt(o.path \o q), Div100(args.threshold))

\* render omitted, by the threshold test, a node that has a child of
\* non-zero size
C3_Witness ==
    /\ pc = "done"
    /\ \E o \in omitted :
          /\ o.by = "threshold"
          /\ \E q \in Paths(NodeAt(root, o.path)) :
                /\ q # <<>>
                /\ Size(NodeAt(root, o.path \o q), args.unit) > 0

-----------------------------------------------------------------------------
(* C9 *)

\* C9: from_json of an array returns a node with children = None and len the
\* number of elements; render never recurses from an array node and prints
\* at most one line for it, so no line is for a value inside an array.
C9_ArraysAreFlattened ==
    /\ JustBuilt =>
         \A c \in BuildCalls(json, 0, RootTag) :
            c.n.kind = "Array" =>
               LET node == from_json(c.n, c.ks, c.tag)
               IN node.children = None /\ node.len = Len(c.n.elems)
    /\ Rendering =>
         /\ \A i \in 1..Len(stack) :
               \A k \in 0..(Len(stack[i].path) - 1) :
                  ValueAt(json, Prefix(stack[i].path, k)).kind = "Object"
         /\ \A i \in 1..Len(out) :
               /\ \A k \in 0..(Len(out[i].path) - 1) :
                     ValueAt(json, Prefix(out[i].path, k)).kind = "Object"
               /\ \A j \in 1..Len(out) : out[j].path = out[i].path => j = i

\* render printed the line of an array whose first element is a non-empty
\* container, and ran to its end
C9_Witness ==
    /\ pc = "done"
    /\ \E i \in 1..Len(out) :
          LET v == ValueAt(json, out[i].path)
          IN /\ v.kind = "Array"
             /\ Len(v.elems) = 2
             /\ IsContainer(v.elems[1])
             /\ Members(v.elems[1]) # <<>>
             /\ NodeAt(root, out[i].path).len = 2

-----------------------------------------------------------------------------
(* C4 *)

\* C4: when the root's size under the selected unit is zero, render prints
\* no line at all and the program ends successfully.
C4_ZeroTotalPrintsNothing ==
    (pc = "done" /\ Size(root, args.unit) = 0) => out = <<>>

-----------------------------------------------------------------------------
(* C5 *)

RootLine == Line(root, [path |-> <<>>, depth |-> 0], settings.width)

-----------------------------------------------------------------------------
(* C6 *)

\* C6: a request -k, k >= 1, on a tree whose max_depth() is D resolves to the
\* cap D - k - 1, also where that is below zero; with D = 3 and request -1
\* the cap is 1 and only the root is printed.
C6_NegativeRequestResolves ==
    (Rendering /\ IsSome(args.max_depth) /\ Unwrap(args.max_depth) < 0) =>
      LET D == max_depth(root)
          k == -Unwrap(args.max_depth)
      IN /\ settings.depth = Some(D - k - 1)
         /\ (D = 3 /\ k = 1) =>
               /\ settings.depth = Some(1)
               /\ \A i \in 1..Len(out) : out[i].path = <<>>

\* the part of C6 the code keeps: where D - k - 1 is not below zero
C6_WhereNotBelowZero ==
    (Rendering /\ IsSome(args.max_depth) /\ Unwrap(args.max_depth) < 0
        /\ max_depth(root) + Unwrap(args.max_depth) - 1 >= 0) =>
      LET D == max_depth(root)
          k == -Unwrap(args.max_depth)
      IN /\ settings.depth = Some(D - k - 1)
         /\ (D = 3 /\ k = 1) =>
               /\ settings.depth = Some(1)
               /\ \A i \in 1..Len(out) : out[i].path = <<>>

-----------------------------------------------------------------------------
(* C7 *)

\* C7: a composed label of more than label_width characters is replaced by
\* its first label_width - 2 characters and one ellipsis, the result never
\* has more than label_width characters, and a label of at most label_width
\* characters is left unchanged.
C7_LabelTruncation ==
    \A i \in 1..Len(out) :
       LET id == ComposeId(NodeAt(root, out[i].path), out[i].depth)
           label_width == W_tagline(settings.width)
       IN /\ CharCount(id) > label_width =>
                out[i].id = TakeChars(id, label_width - 2) \o <<"U+2026">>
          /\ CharCount(out[i].id) <= label_width
          /\ CharCount(id) <= label_width => out[i].id = id

\* the part of C7 the code keeps: labels of one-byte characters
C7_OneByteLabels ==
    \A i \in 1..Len(out) :
       LET id == ComposeId(NodeAt(root, out[i].path), out[i].depth)
           label_width == W_tagline(settings.width)
       IN StrLen(id) = CharCount(id) =>
            /\ CharCount(id) > label_width =>
                  out[i].id = TakeChars(id, label_width - 2) \o <<"U+2026">>
            /\ CharCount(out[i].id) <= label_width
            /\ CharCount(id) <= label_width => out[i].id = id

-----------------------------------------------------------------------------
(* C8 *)

RECURSIVE KeySum(_)
\* the sum of the lengths of all object keys anywhere in v
KeySum(v) ==
    IF v.kind = "Object"
    THEN SumSeq([i \in 1..Len(v.entries) |->
                    StrLen(v.entries[i].k) + KeySum(v.entries[i].v)])
    ELSE IF v.kind = "Array"
    THEN SumSeq([i \in 1..Len(v.elems) |-> KeySum(v.elems[i])])
    ELSE 0

\* C8: the key_size of the node built for a container equals the sum of the
\* lengths of all object keys in the container's subtree, at every nesting
\* level of objects and arrays.
C8_KeySizeIsSubtreeKeySum ==
    Built =>
      \A c \in BuildCalls(json, 0, RootTag) :
         IsContainer(c.n) => from_json(c.n, c.ks, c.tag).key_size = KeySum(c.n)

-----------------------------------------------------------------------------
(* C10 *)

\* C10: a line is printed only for a node that, with every one of its
\* ancestors, passed the depth test (depth < cap, when a cap is set) and the
\* threshold test (relative size >= threshold); the lines are in depth-first
\* pre-order, children by their order in the object, each after its
\* parent's.
C10_PrintedOnlyBelowPassingAncestors ==
    Rendering =>
      \A i \in 1..Len(out) :
         LET p == out[i].path
         IN /\ \A k \in 0..Len(p) :
                  /\ ~DepthCut(k, settings.depth)
                  /\ RatioGe(RelAt(Prefix(p, k)), Div100(args.threshold))
            /\ \A o \in omitted : ~IsPrefix(o.path, p)
            /\ \A j \in 1..(i - 1) : PreOrderBefore(out[j].path, p)
            /\ p # <<>> =>
                  \E j \in 1..(i - 1) : out[j].path = Prefix(p, Len(p) - 1)

\* the part of C10 the code keeps: documents whose total size is not zero
C10_WhereTotalNotZero ==
    (Rendering /\ Size(root, args.unit) # 0) =>
      C10_PrintedOnlyBelowPassingAncestors

=============================================================================
